---- MODULE Spec2Model ----
(***************************************************************************)
(* The 2D scattering transform of kymatio/scattering2d/scattering2d.py:    *)
(* construction of a Scattering2D object, the input checks of forward, the *)
(* allocation of the output tensor S and the nested order-1..4 cascade     *)
(* loops with their running channel counters.  Tensors are modelled by     *)
(* their bookkeeping: the chain of band-pass filters applied so far, the   *)
(* cumulative subsampling factor and the domain (spatial or Fourier).      *)
(***************************************************************************)
EXTENDS Integers, Sequences, FiniteSets, TLC

\* ---------------------------------------------------------------- bounds
MaxJ == 4
MaxL == 2
MaxBatchRank == 1
MaxFilters == 8
PermMaxFilters == 3

\* ------------------------------------------------------------ input sets
Pow2(e) == 2 ^ e

\* spatial sizes offered to the constructor: powers of two and their
\* predecessors, up to 2^(maxJ+2)
SizesUpTo(maxJ) == {Pow2(k) - d : k \in 0..(maxJ + 2), d \in {0, 1}} \ {0}

\* shapes (M, N) offered to the constructor: equal or adjacent sizes
ShapesUpTo(maxJ) ==
  {sh \in SizesUpTo(maxJ) \X SizesUpTo(maxJ) : sh[1] - sh[2] \in {-1, 0, 1}}

Orders == {1, 2, 3, 4}

\* leading batch dimensions of an input: <<>>, <<2>>, <<2,3>>, ...
Batches == {[i \in 1..n |-> i + 1] : n \in 0..MaxBatchRank}

Identity(len) == [i \in 0..(len - 1) |-> i]

VARIABLES
  pc,        \* "new", "ctor_raised", "ready", "checked", "allocated",
             \* "cascade", "returned", "raised"
  self,      \* the fields of the Scattering2D object
  order,     \* order in which a loop over range(len(psi)) visits the filters
  input,     \* the argument of forward
  err,       \* the exception raised, "none" if none
  calls,     \* primitives called so far by the running forward
  lookups,   \* filter variants requested: kind, scale j, resolution r,
             \* cumulative subsampling of the state it is applied to
  factors,   \* the k of every subsample_fourier call
  output_size, Sdims, S, result,
  U_0_c, U_1_c, U_2_c, U_3_c, U_4_c,
  n_order1, n_order2, n_order3, n_order4,
  depth, i1, i2, i3, i4, n1, n2, n3, n4

logs == <<calls, lookups, factors>>
Us == <<U_0_c, U_1_c, U_2_c, U_3_c, U_4_c>>
counters == <<n_order1, n_order2, n_order3, n_order4>>
loops == <<depth, i1, i2, i3, i4, n1, n2, n3, n4>>

frame == <<input, err, logs, output_size, Sdims, S, result, Us, counters, loops>>

vars == <<pc, self, order, frame>>

\* ------------------------------------------------------- filter bank etc.
\* utils.compute_padding, as the design describes it (the function is not
\* among the sources): the smallest multiple of 2^J that is >= the size
compute_padding(M, N, J) ==
  << ((M + Pow2(J) - 1) \div Pow2(J)) * Pow2(J),
     ((N + Pow2(J) - 1) \div Pow2(J)) * Pow2(J) >>

\* filter_bank(...)['psi'], as the design describes it (the function is not
\* among the sources): L*J band-pass filters, scale ascending then
\* orientation, each stored at the resolutions 0..j
filter_bank_psi(J, L) ==
  [n \in 0..(L * J - 1) |-> [j |-> n \div L, theta |-> n % L, res |-> 0..(n \div L)]]

\* self.Phi: the list [filters['phi'][j] for j in range(J)]
Phi_list(J) == [r \in 0..(J - 1) |-> [j |-> J, res |-> r]]

\* the test of __init__ on (J, shape); TooSmall_ge is the variant that also
\* rejects equality
TooSmall_ge(J, shape) == Pow2(J) >= shape[1] \/ Pow2(J) >= shape[2]
TooSmall(J, shape) == Pow2(J) > shape[1] \/ Pow2(J) > shape[2]

Unset == [path |-> <<>>, sub |-> 0, dom |-> "unset", lp |-> FALSE]

FrameInit ==
  /\ input = [is_tensor |-> FALSE, shape |-> <<>>, contiguous |-> FALSE]
  /\ err = "none" /\ calls = {} /\ lookups = {} /\ factors = {}
  /\ output_size = 0 /\ Sdims = <<>> /\ S = <<>> /\ result = <<>>
  /\ U_0_c = Unset /\ U_1_c = Unset /\ U_2_c = Unset /\ U_3_c = Unset /\ U_4_c = Unset
  /\ n_order1 = 0 /\ n_order2 = 0 /\ n_order3 = 0 /\ n_order4 = 0
  /\ depth = 0 /\ i1 = 0 /\ i2 = 0 /\ i3 = 0 /\ i4 = 0
  /\ n1 = 0 /\ n2 = 0 /\ n3 = 0 /\ n4 = 0

Init ==
  /\ pc = "new"
  /\ self = [built |-> FALSE]
  /\ order = <<>>
  /\ FrameInit

\* Scattering2D.__init__ followed by build()
Construct(J, shape, L, max_order, pre_pad, perm) ==
  /\ pc = "new"
  /\ IF TooSmall(J, shape)
       THEN /\ pc' = "ctor_raised"
            /\ self' = [built |-> FALSE, J |-> J, L |-> L, pre_pad |-> pre_pad,
                        max_order |-> max_order, shape |-> shape]
            /\ order' = order
       ELSE /\ pc' = "ready"
            /\ self' = [built |-> TRUE, J |-> J, L |-> L, pre_pad |-> pre_pad,
                        max_order |-> max_order, shape |-> shape,
                        M |-> shape[1], N |-> shape[2],
                        M_padded |-> compute_padding(shape[1], shape[2], J)[1],
                        N_padded |-> compute_padding(shape[1], shape[2], J)[2],
                        Psi |-> filter_bank_psi(J, L),
                        Phi |-> Phi_list(J)]
            /\ order' = perm
  /\ UNCHANGED frame

\* the constructor calls offered: every (J, L) whose filter bank has at most
\* MaxFilters band-pass filters
__init__ ==
  /\ pc = "new"
  /\ \E J \in 0..MaxJ, L \in 1..MaxL, max_order \in Orders, pre_pad \in BOOLEAN :
       \E shape \in ShapesUpTo(MaxJ) :
         /\ L * J <= MaxFilters
         /\ Construct(J, shape, L, max_order, pre_pad, Identity(L * J))

\* the same constructor, for an engine whose loops over the filters visit
\* them in an arbitrary fixed order instead of range(len(psi))
__init__perm ==
  /\ pc = "new"
  /\ \E J \in 0..MaxJ, L \in 1..MaxL, max_order \in Orders, pre_pad \in BOOLEAN :
       /\ L * J <= PermMaxFilters
       /\ \E k \in 0..(MaxJ + 2), perm \in Permutations(0..(L * J - 1)) :
            Construct(J, <<Pow2(k), Pow2(k)>>, L, max_order, pre_pad, perm)

\* ------------------------------------------------------------ primitives
\* input.size(-1), input.size(-2); "IndexError" where the dimension is absent
Size(x, d) == IF Len(x.shape) >= d THEN x.shape[Len(x.shape) + 1 - d] ELSE -1

RECURSIVE Prod(_)
Prod(s) == IF s = <<>> THEN 1 ELSE Head(s) * Prod(Tail(s))

\* input.shape[:-2] and input.shape[-2:]
BatchShape(x) == SubSeq(x.shape, 1, Len(x.shape) - 2)
SignalShape(x) == SubSeq(x.shape, Len(x.shape) - 1, Len(x.shape))

\* the checks that open forward, in the order of the code;
\* CheckInput_SizeFirst is the variant that tests the sizes before the rank
CheckInput_SizeFirst(x, obj) ==
  IF ~x.is_tensor THEN "TypeError"
  ELSE IF (Size(x, 1) # obj.N \/ Size(x, 2) # obj.M) /\ ~obj.pre_pad
    THEN "RuntimeError: spatial size"
  ELSE IF (Size(x, 1) # obj.N_padded \/ Size(x, 2) # obj.M_padded) /\ obj.pre_pad
    THEN "RuntimeError: padded spatial size"
  ELSE IF Len(x.shape) < 2 THEN "RuntimeError: two dimensions"
  ELSE IF ~x.contiguous THEN "RuntimeError: contiguous"
  ELSE "none"
CheckInput(x, obj) ==
  IF ~x.is_tensor THEN "TypeError"
  ELSE IF Len(x.shape) < 2 THEN "RuntimeError: two dimensions"
  ELSE IF ~x.contiguous THEN "RuntimeError: contiguous"
  ELSE IF (Size(x, 1) # obj.N \/ Size(x, 2) # obj.M) /\ ~obj.pre_pad
    THEN "RuntimeError: spatial size"
  ELSE IF (Size(x, 1) # obj.N_padded \/ Size(x, 2) # obj.M_padded) /\ obj.pre_pad
    THEN "RuntimeError: padded spatial size"
  ELSE "none"

\* the arguments offered to forward of a given object: a non-tensor, tensors
\* of rank 0 and 1, matrices of every combination of right and wrong sizes,
\* and batches of unpadded-size and padded-size signals
InputShapes(obj) ==
  LET hs == {obj.M, obj.M_padded, obj.M + 1}
      ws == {obj.N, obj.N_padded, obj.N + 1}
  IN  {<<h>> : h \in hs}
      \cup {<<h, w>> : h \in hs, w \in ws}
      \cup {b \o <<obj.M, obj.N>> : b \in Batches}
      \cup {b \o <<obj.M_padded, obj.N_padded>> : b \in Batches}

Inputs(obj) ==
  {[is_tensor |-> FALSE, shape |-> <<>>, contiguous |-> FALSE],
   [is_tensor |-> TRUE, shape |-> <<>>, contiguous |-> TRUE]}
  \cup [is_tensor : {TRUE}, shape : InputShapes(obj), contiguous : BOOLEAN]

\* lines 168-182: the call of forward on a built object and its input checks
forward_check(x) ==
  /\ input' = x
  /\ err' = CheckInput(x, self)
  /\ pc' = IF CheckInput(x, self) = "none" THEN "checked" ELSE "raised"
  /\ calls' = {} /\ lookups' = {} /\ factors' = {}
  /\ output_size' = 0 /\ Sdims' = <<>> /\ S' = <<>> /\ result' = <<>>
  /\ U_0_c' = Unset /\ U_1_c' = Unset /\ U_2_c' = Unset /\ U_3_c' = Unset /\ U_4_c' = Unset
  /\ n_order1' = 0 /\ n_order2' = 0 /\ n_order3' = 0 /\ n_order4' = 0
  /\ depth' = 0 /\ i1' = 0 /\ i2' = 0 /\ i3' = 0 /\ i4' = 0
  /\ n1' = 0 /\ n2' = 0 /\ n3' = 0 /\ n4' = 0
  /\ UNCHANGED <<self, order>>

forward ==
  /\ pc = "ready"
  /\ \E x \in Inputs(self) : forward_check(x)

\* lines 197-202: the sizes of the order blocks; order3_size_div3 is the
\* variant that divides by 3 instead of 3 * 2
order1_size(L, J) == L * J
order2_size(L, J) == (L ^ 2 * J * (J - 1)) \div 2
order3_size_div3(L, J) == (L ^ 3 * (J * (J - 1) * (J - 2))) \div 3
order3_size(L, J) == (L ^ 3 * (J * (J - 1) * (J - 2))) \div (3 * 2)
order4_size(L, J) == (L ^ 4 * (J * (J - 1) * (J - 2) * (J - 3))) \div (4 * 3 * 2)

\* lines 204-213
OutputSize(L, J, max_order) ==
  1 + order1_size(L, J)
    + (IF max_order >= 2 THEN order2_size(L, J) ELSE 0)
    + (IF max_order >= 3 THEN order3_size(L, J) ELSE 0)
    + (IF max_order >= 4 THEN order4_size(L, J) ELSE 0)

\* lines 184-220: reshape of the input, channel count, S = input.new(...)
\* (a negative dimension makes the allocation raise)
forward_allocate ==
  /\ pc = "checked"
  /\ LET D  == OutputSize(self.L, self.J, self.max_order)
         Md == self.M_padded \div Pow2(self.J) - 2
         Nd == self.N_padded \div Pow2(self.J) - 2
     IN  /\ output_size' = D
         /\ IF Md < 0 \/ Nd < 0
              THEN /\ pc' = "raised" /\ err' = "RuntimeError: negative dimension"
                   /\ UNCHANGED <<Sdims, S, calls>>
              ELSE /\ pc' = "allocated" /\ err' = err
                   /\ Sdims' = <<Prod(BatchShape(input)), 1, D, Md, Nd>>
                   /\ S' = [c \in 0..(D - 1) |-> <<>>]
                   /\ calls' = calls \cup {"new"}
  /\ UNCHANGED <<self, order, input, lookups, factors, result, Us, counters, loops>>

\* ---------------------------------------------------- tensor bookkeeping
\* pad(input) followed by fft(., 'C2C'): the full-resolution spectrum
PadFft == [path |-> <<>>, sub |-> 1, dom |-> "fourier", lp |-> FALSE]

\* subsample_fourier(A, k), as the design describes it: periodization, the
\* signal gets k times smaller
subsample_fourier(A, k) == [A EXCEPT !.sub = @ * k]

\* cdgmm(A, psi[n][r]), then inverse fft, modulus, fft: filter n joins the path
cdgmm_psi(A, n) == [A EXCEPT !.path = Append(@, n)]

\* cdgmm(A, phi[r]): the terminal low-pass filter
cdgmm_phi(A) == [A EXCEPT !.lp = TRUE]

\* unpad(fft(A, 'C2R')): the real signal written to a channel of S
Channel(A) == [A EXCEPT !.dom = "real"]

PsiLen == self.L * self.J

\* the pruning test of the loops of orders 2, 3 and 4; Admissible_le is the
\* variant that lets equal scales through
Admissible_le(jprev, jn) == jprev <= jn
Admissible(jprev, jn) == jprev < jn

\* lines 230-235: where the counters of the orders start; Order2Start_no0
\* and Order3Start_no2 are the variants that forget the block of order 0
\* and of order 2
Order1Start(L, J) == 1
Order2Start_no0(L, J) == order1_size(L, J)
Order2Start(L, J) == 1 + order1_size(L, J)
Order3Start_no2(L, J) == 1 + order1_size(L, J)
Order3Start(L, J) == 1 + order1_size(L, J) + order2_size(L, J)
Order4Start(L, J) == 1 + order1_size(L, J) + order2_size(L, J) + order3_size(L, J)

\* S[..., c, :, :] = v
Write(c, v) == [S EXCEPT ![c] = Append(@, v)]

\* lines 221-235: padding, FFT, the order-0 coefficient, the counters
forward_order0 ==
  /\ pc = "allocated"
  /\ LET J  == self.J
         u0 == PadFft
         u1 == subsample_fourier(cdgmm_phi(u0), Pow2(J))
     IN  /\ U_0_c' = u0
         /\ lookups' = lookups \cup {[kind |-> "phi", j |-> J, r |-> 0, sub |-> u0.sub]}
         /\ IF 0 \in DOMAIN self.Phi
              THEN /\ pc' = "cascade" /\ err' = err
                   /\ calls' = calls \cup {"pad", "fft", "cdgmm", "subsample_fourier", "unpad"}
                   /\ factors' = factors \cup {[k |-> Pow2(J), sub |-> u0.sub]}
                   /\ U_1_c' = u1
                   /\ S' = Write(0, Channel(u1))
                   /\ n_order1' = Order1Start(self.L, J)
                   /\ n_order2' = Order2Start(self.L, J)
                   /\ n_order3' = Order3Start(self.L, J)
                   /\ n_order4' = Order4Start(self.L, J)
                   /\ depth' = 1 /\ i1' = 0
              ELSE /\ pc' = "raised" /\ err' = "IndexError: list index out of range"
                   /\ calls' = calls \cup {"pad", "fft"}
                   /\ UNCHANGED <<factors, U_1_c, S, counters, depth, i1>>
  /\ UNCHANGED <<self, order, input, output_size, Sdims, result,
                 U_2_c, U_3_c, U_4_c, i2, i3, i4, n1, n2, n3, n4>>

\* lines 237-249: one iteration of the loop over n1
Iter1 ==
  /\ pc = "cascade" /\ depth = 1 /\ i1 < PsiLen
  /\ LET J  == self.J
         n  == order[i1]
         j1 == self.Psi[n].j
         a  == cdgmm_psi(U_0_c, n)
         u1 == IF j1 > 0 THEN subsample_fourier(a, Pow2(j1)) ELSE a
         u2 == subsample_fourier(cdgmm_phi(u1), Pow2(J - j1))
     IN  /\ i1' = i1 + 1 /\ n1' = n
         /\ lookups' = lookups \cup
              {[kind |-> "psi", j |-> j1, r |-> 0, sub |-> U_0_c.sub],
               [kind |-> "phi", j |-> J, r |-> j1, sub |-> u1.sub]}
         /\ IF 0 \in self.Psi[n].res /\ j1 \in DOMAIN self.Phi /\ n_order1 \in DOMAIN S
              THEN /\ U_1_c' = u1 /\ U_2_c' = u2
                   /\ factors' = factors
                        \cup (IF j1 > 0 THEN {[k |-> Pow2(j1), sub |-> a.sub]} ELSE {})
                        \cup {[k |-> Pow2(J - j1), sub |-> u1.sub]}
                   /\ S' = Write(n_order1, Channel(u2))
                   /\ n_order1' = n_order1 + 1
                   /\ IF self.max_order >= 2
                        THEN depth' = 2 /\ i2' = 0
                        ELSE UNCHANGED <<depth, i2>>
                   /\ UNCHANGED <<pc, err>>
              ELSE /\ pc' = "raised" /\ err' = "IndexError: filter or channel"
                   /\ UNCHANGED <<U_1_c, U_2_c, factors, S, n_order1, depth, i2>>
  /\ UNCHANGED <<self, order, input, calls, output_size, Sdims, result,
                 U_0_c, U_3_c, U_4_c, n_order2, n_order3, n_order4,
                 i3, i4, n2, n3, n4>>

\* lines 252-264: one iteration of the loop over n2
Iter2 ==
  /\ pc = "cascade" /\ depth = 2 /\ i2 < PsiLen
  /\ LET J  == self.J
         n  == order[i2]
         j1 == self.Psi[n1].j
         j2 == self.Psi[n].j
         u2 == subsample_fourier(cdgmm_psi(U_1_c, n), Pow2(j2 - j1))
         u3 == subsample_fourier(cdgmm_phi(u2), Pow2(J - j2))
     IN  /\ i2' = i2 + 1 /\ n2' = n
         /\ IF ~Admissible(j1, j2)
              THEN UNCHANGED <<pc, err, lookups, factors, U_2_c, U_3_c, S, n_order2, depth, i3>>
              ELSE /\ lookups' = lookups \cup
                        {[kind |-> "psi", j |-> j2, r |-> j1, sub |-> U_1_c.sub],
                         [kind |-> "phi", j |-> J, r |-> j2, sub |-> u2.sub]}
                   /\ IF j1 \in self.Psi[n].res /\ j2 \in DOMAIN self.Phi /\ n_order2 \in DOMAIN S
                        THEN /\ U_2_c' = u2 /\ U_3_c' = u3
                             /\ factors' = factors \cup
                                  {[k |-> Pow2(j2 - j1), sub |-> U_1_c.sub],
                                   [k |-> Pow2(J - j2), sub |-> u2.sub]}
                             /\ S' = Write(n_order2, Channel(u3))
                             /\ n_order2' = n_order2 + 1
                             /\ IF self.max_order >= 3
                                  THEN depth' = 3 /\ i3' = 0
                                  ELSE UNCHANGED <<depth, i3>>
                             /\ UNCHANGED <<pc, err>>
                        ELSE /\ pc' = "raised" /\ err' = "IndexError: filter or channel"
                             /\ UNCHANGED <<U_2_c, U_3_c, factors, S, n_order2, depth, i3>>
  /\ UNCHANGED <<self, order, input, calls, output_size, Sdims, result,
                 U_0_c, U_1_c, U_4_c, n_order1, n_order3, n_order4,
                 i1, i4, n1, n3, n4>>

\* lines 268-280: one iteration of the loop over n3
Iter3 ==
  /\ pc = "cascade" /\ depth = 3 /\ i3 < PsiLen
  /\ LET J  == self.J
         n  == order[i3]
         j2 == self.Psi[n2].j
         j3 == self.Psi[n].j
         u3 == subsample_fourier(cdgmm_psi(U_2_c, n), Pow2(j3 - j2))
         u4 == subsample_fourier(cdgmm_phi(u3), Pow2(J - j3))
     IN  /\ i3' = i3 + 1 /\ n3' = n
         /\ IF ~Admissible(j2, j3)
              THEN UNCHANGED <<pc, err, lookups, factors, U_3_c, U_4_c, S, n_order3, depth, i4>>
              ELSE /\ lookups' = lookups \cup
                        {[kind |-> "psi", j |-> j3, r |-> j2, sub |-> U_2_c.sub],
                         [kind |-> "phi", j |-> J, r |-> j3, sub |-> u3.sub]}
                   /\ IF j2 \in self.Psi[n].res /\ j3 \in DOMAIN self.Phi /\ n_order3 \in DOMAIN S
                        THEN /\ U_3_c' = u3 /\ U_4_c' = u4
                             /\ factors' = factors \cup
                                  {[k |-> Pow2(j3 - j2), sub |-> U_2_c.sub],
                                   [k |-> Pow2(J - j3), sub |-> u3.sub]}
                             /\ S' = Write(n_order3, Channel(u4))
                             /\ n_order3' = n_order3 + 1
                             /\ IF self.max_order >= 4
                                  THEN depth' = 4 /\ i4' = 0
                                  ELSE UNCHANGED <<depth, i4>>
                             /\ UNCHANGED <<pc, err>>
                        ELSE /\ pc' = "raised" /\ err' = "IndexError: filter or channel"
                             /\ UNCHANGED <<U_3_c, U_4_c, factors, S, n_order3, depth, i4>>
  /\ UNCHANGED <<self, order, input, calls, output_size, Sdims, result,
                 U_0_c, U_1_c, U_2_c, n_order1, n_order2, n_order4,
                 i1, i2, n1, n2, n4>>

\* lines 285-297: one iteration of the loop over n4
Iter4 ==
  /\ pc = "cascade" /\ depth = 4 /\ i4 < PsiLen
  /\ LET J  == self.J
         n  == order[i4]
         j3 == self.Psi[n3].j
         j4 == self.Psi[n].j
         u4 == subsample_fourier(cdgmm_psi(U_3_c, n), Pow2(j4 - j3))
         v4 == subsample_fourier(cdgmm_phi(u4), Pow2(J - j4))
     IN  /\ i4' = i4 + 1 /\ n4' = n
         /\ IF ~Admissible(j3, j4)
              THEN UNCHANGED <<pc, err, lookups, factors, U_4_c, S, n_order4>>
              ELSE /\ lookups' = lookups \cup
                        {[kind |-> "psi", j |-> j4, r |-> j3, sub |-> U_3_c.sub],
                         [kind |-> "phi", j |-> J, r |-> j4, sub |-> u4.sub]}
                   /\ IF j3 \in self.Psi[n].res /\ j4 \in DOMAIN self.Phi /\ n_order4 \in DOMAIN S
                        THEN /\ U_4_c' = v4
                             /\ factors' = factors \cup
                                  {[k |-> Pow2(j4 - j3), sub |-> U_3_c.sub],
                                   [k |-> Pow2(J - j4), sub |-> u4.sub]}
                             /\ S' = Write(n_order4, Channel(v4))
                             /\ n_order4' = n_order4 + 1
                             /\ UNCHANGED <<pc, err>>
                        ELSE /\ pc' = "raised" /\ err' = "IndexError: filter or channel"
                             /\ UNCHANGED <<U_4_c, factors, S, n_order4>>
  /\ UNCHANGED <<self, order, input, calls, output_size, Sdims, result,
                 U_0_c, U_1_c, U_2_c, U_3_c, n_order1, n_order2, n_order3,
                 depth, i1, i2, i3, n1, n2, n3>>

\* a loop of order 2, 3 or 4 has run through range(len(psi))
EndLoop ==
  /\ pc = "cascade"
  /\ \/ depth = 2 /\ i2 = PsiLen
     \/ depth = 3 /\ i3 = PsiLen
     \/ depth = 4 /\ i4 = PsiLen
  /\ depth' = depth - 1
  /\ UNCHANGED <<pc, self, order, input, err, logs, output_size, Sdims, S, result,
                 Us, counters, i1, i2, i3, i4, n1, n2, n3, n4>>

\* lines 299-302: the loop over n1 is over, S is reshaped and returned
forward_return ==
  /\ pc = "cascade" /\ depth = 1 /\ i1 = PsiLen
  /\ pc' = "returned"
  /\ result' = BatchShape(input) \o SubSeq(Sdims, 3, 5)
  /\ UNCHANGED <<self, order, input, err, logs, output_size, Sdims, S,
                 Us, counters, loops>>

Next ==
  \/ __init__
  \/ forward
  \/ forward_allocate
  \/ forward_order0
  \/ Iter1
  \/ Iter2
  \/ Iter3
  \/ Iter4
  \/ EndLoop
  \/ forward_return

Spec == Init /\ [][Next]_vars

NextPerm ==
  \/ __init__perm
  \/ forward
  \/ forward_allocate
  \/ forward_order0
  \/ Iter1
  \/ Iter2
  \/ Iter3
  \/ Iter4
  \/ EndLoop
  \/ forward_return

SpecPerm == Init /\ [][NextPerm]_vars

\* ------------------------------------------------------------ properties
RECURSIVE Binom(_, _)
Binom(n, k) ==
  IF k = 0 THEN 1 ELSE (Binom(n, k - 1) * (n - k + 1)) \div k

\* chains ((j1,theta1),...,(jn,thetan)) with j1 < ... < jn
RECURSIVE ChainsOfLen(_, _, _)
ChainsOfLen(J, L, n) ==
  IF n = 0 THEN {<<>>}
  ELSE {Append(x[1], <<x[2], x[3]>>) :
          x \in {y \in ChainsOfLen(J, L, n - 1) \X (0..(J - 1)) \X (0..(L - 1)) :
                   n = 1 \/ y[1][n - 1][1] < y[2]}}

RECURSIVE NumChains(_, _, _)
NumChains(J, L, n) ==
  IF n < 0 THEN 0 ELSE Cardinality(ChainsOfLen(J, L, n)) + NumChains(J, L, n - 1)

\* size of the block of order n and the channel where it starts
BlockSize(L, J, n) == L ^ n * Binom(J, n)
RECURSIVE BlockStart(_, _, _)
BlockStart(L, J, n) ==
  IF n = 0 THEN 0 ELSE BlockStart(L, J, n - 1) + BlockSize(L, J, n - 1)

PairLess(a, b) == a[1] < b[1] \/ (a[1] = b[1] /\ a[2] < b[2])
LexLess(p, q) ==
  \E i \in 1..Len(p) : (\A k \in 1..(i - 1) : p[k] = q[k]) /\ PairLess(p[i], q[i])

PairsOf(path) ==
  [i \in 1..Len(path) |-> <<self.Psi[path[i]].j, self.Psi[path[i]].theta>>]

Counter(n) ==
  CASE n = 1 -> n_order1 [] n = 2 -> n_order2 [] n = 3 -> n_order3 [] n = 4 -> n_order4

InCall == pc \in {"checked", "allocated", "cascade", "returned", "raised"}
Cascading == pc \in {"cascade", "returned"}

ValidationErrors ==
  {"TypeError", "RuntimeError: two dimensions", "RuntimeError: contiguous",
   "RuntimeError: spatial size", "RuntimeError: padded spatial size"}

\* C1: the channel dimension D allocated by forward is the number of chains
\* of scale/orientation pairs with strictly increasing scales of length
\* 0..max_order, that is 1 + L*J + C2 + C3 + C4 truncated to max_order, and
\* the integer divisions in C2, C3, C4 are exact.
C1_ChannelCount ==
  pc = "allocated" =>
    LET J == self.J
        L == self.L
    IN  /\ Sdims[3] = output_size
        /\ output_size = NumChains(J, L, self.max_order)
        /\ output_size = BlockStart(L, J, self.max_order + 1)
        /\ \A n \in 0..4 : BlockSize(L, J, n) = Cardinality(ChainsOfLen(J, L, n))
        /\ BlockSize(L, J, 2) * 2 = L ^ 2 * J * (J - 1)
        /\ BlockSize(L, J, 3) * 6 = L ^ 3 * J * (J - 1) * (J - 2)
        /\ BlockSize(L, J, 4) * 24 = L ^ 4 * J * (J - 1) * (J - 2) * (J - 3)
        /\ (L ^ 2 * J * (J - 1)) % 2 = 0
        /\ (L ^ 3 * J * (J - 1) * (J - 2)) % 6 = 0
        /\ (L ^ 4 * J * (J - 1) * (J - 2) * (J - 3)) % 24 = 0

C1_Witness ==
  /\ pc = "allocated" /\ self.J = 4 /\ self.L = 2 /\ self.max_order = 4
  /\ output_size = 81

\* C2: every channel written by forward belongs to a path whose scales
\* strictly increase and whose length is at most max_order.
C2_StrictIncrease ==
  \A c \in DOMAIN S : \A k \in 1..Len(S[c]) :
    LET path == S[c][k].path
    IN  /\ Len(path) <= self.max_order
        /\ \A i \in 1..(Len(path) - 1) :
             self.Psi[path[i]].j < self.Psi[path[i + 1]].j

C2_Witness ==
  /\ pc = "returned"
  /\ \E c \in DOMAIN S : S[c] # <<>> /\ Len(S[c][1].path) = 4
  /\ \E c \in DOMAIN S : S[c] # <<>> /\ Len(S[c][1].path) = 2

Malformed(x) ==
  \/ ~x.is_tensor
  \/ Len(x.shape) < 2
  \/ ~x.contiguous
  \/ ~self.pre_pad /\ SignalShape(x) # <<self.M, self.N>>
  \/ self.pre_pad /\ SignalShape(x) # <<self.M_padded, self.N_padded>>

\* C3: a malformed input makes forward raise before the output is allocated
\* and before padding, FFT or any filter is applied, with one error per
\* condition; a tensor of rank below 2 always gets the rank error.
C3_InputErrors ==
  InCall =>
    /\ Malformed(input) =>
         /\ pc = "raised" /\ err \in ValidationErrors
         /\ calls = {} /\ lookups = {} /\ factors = {}
         /\ S = <<>> /\ Sdims = <<>> /\ output_size = 0
    /\ ~Malformed(input) => err \notin ValidationErrors
    /\ err = "TypeError" <=> ~input.is_tensor
    /\ err = "RuntimeError: two dimensions" <=>
         input.is_tensor /\ Len(input.shape) < 2
    /\ err = "RuntimeError: contiguous" =>
         input.is_tensor /\ ~input.contiguous
    /\ err = "RuntimeError: spatial size" =>
         ~self.pre_pad /\ SignalShape(input) # <<self.M, self.N>>
    /\ err = "RuntimeError: padded spatial size" =>
         self.pre_pad /\ SignalShape(input) # <<self.M_padded, self.N_padded>>

C3_Witness ==
  /\ pc = "raised" /\ err = "RuntimeError: two dimensions"
  /\ Len(input.shape) = 1 /\ ~input.contiguous /\ input.shape[1] # self.N

C5_ForwardShape ==
  /\ pc = "raised" => err \in ValidationErrors
  /\ pc = "returned" =>
       result = BatchShape(input)
                  \o <<BlockStart(self.L, self.J, self.max_order + 1),
                       self.M_padded \div Pow2(self.J) - 2,
                       self.N_padded \div Pow2(self.J) - 2>>

\* the shape part of C5 alone: what forward returns when it returns
ReturnedShape ==
  pc = "returned" =>
    result = BatchShape(input)
               \o <<BlockStart(self.L, self.J, self.max_order + 1),
                    self.M_padded \div Pow2(self.J) - 2,
                    self.N_padded \div Pow2(self.J) - 2>>

\* C6: channel 0 is the order-0 coefficient, channel 1 + j1*L + theta1 the
\* order-1 coefficient of (j1, theta1), and the blocks of orders 2, 3, 4
\* follow, each holding its chains in lexicographic order.
C6_Layout ==
  pc = "returned" =>
    LET J == self.J
        L == self.L
    IN  /\ \A n \in 0..self.max_order :
             LET chains == ChainsOfLen(J, L, n)
             IN  \A ch \in chains :
                   LET c == BlockStart(L, J, n)
                              + Cardinality({q \in chains : LexLess(q, ch)})
                   IN  /\ c \in DOMAIN S
                       /\ Len(S[c]) = 1
                       /\ PairsOf(S[c][1].path) = ch
        /\ \A m \in DOMAIN self.Psi :
             /\ Len(S[1 + self.Psi[m].j * L + self.Psi[m].theta]) = 1
             /\ S[1 + self.Psi[m].j * L + self.Psi[m].theta][1].path = <<m>>
        /\ DOMAIN S = 0..(BlockStart(L, J, self.max_order + 1) - 1)

C6_Witness ==
  /\ pc = "returned" /\ self.J = 4 /\ self.L = 2 /\ self.max_order = 4
  /\ PairsOf(S[80][1].path) = << <<0, 1>>, <<1, 1>>, <<2, 1>>, <<3, 1>> >>

\* C7 as stated: when forward returns every channel has been written exactly
\* once and each of the four counters ends at the start of the next range.
C7_CountersEndAtNextRange ==
  pc = "returned" =>
    /\ \A c \in DOMAIN S : Len(S[c]) = 1
    /\ \A n \in 1..4 : Counter(n) = BlockStart(self.L, self.J, n + 1)

\* C7 as amended: no channel is written twice and none outside [0, D); the
\* counter of an order n <= max_order stays in its own range, the channels
\* written are channel 0 and those below the counters, and at the return the
\* counter stands at the start of the next range; the counter of an order
\* above max_order keeps its start value.
C7_WrittenOnce ==
  /\ pc = "raised" => err # "IndexError: filter or channel"
  /\ Cascading =>
       LET start == <<BlockStart(self.L, self.J, 1), BlockStart(self.L, self.J, 2),
                       BlockStart(self.L, self.J, 3), BlockStart(self.L, self.J, 4),
                       BlockStart(self.L, self.J, 5)>>
           ctr   == <<n_order1, n_order2, n_order3, n_order4>>
       IN  /\ \A n \in 1..4 :
                IF n <= self.max_order
                  THEN /\ start[n] <= ctr[n]
                       /\ ctr[n] <= start[n + 1]
                       /\ pc = "returned" => ctr[n] = start[n + 1]
                  ELSE ctr[n] = start[n]
           /\ \A c \in DOMAIN S :
                Len(S[c]) =
                  IF c = 0 \/ \E n \in 1..self.max_order : start[n] <= c /\ c < ctr[n]
                    THEN 1 ELSE 0
           /\ pc = "returned" => \A c \in 0..(output_size - 1) : Len(S[c]) = 1

C7_Witness ==
  /\ pc = "returned" /\ self.J = 4 /\ self.max_order = 4 /\ self.L = 2
  /\ n_order4 = output_size /\ n_order3 = 65

\* filter variants and subsampling factors match the resolution of the state
ResolutionMatched ==
  /\ \A a \in lookups :
       /\ Pow2(a.r) = a.sub
       /\ a.kind = "psi" => a.r <= a.j
       /\ a.kind = "phi" => a.r \in 0..(self.J - 1)
  /\ \A f \in factors :
       \E e \in 1..self.J : f.k = Pow2(e) /\ f.sub * f.k <= Pow2(self.J)
  /\ \A c \in DOMAIN S : \A k \in 1..Len(S[c]) :
       S[c][k].sub = Pow2(self.J) /\ S[c][k].lp

\* C8: every filter variant requested along the cascade has the resolution
\* index of the state it is applied to (r <= j for psi, r in [0, J) for
\* phi), every subsampling factor is a positive power of two and every
\* channel written has cumulative subsampling 2^J.
C8_ResolutionMatched == InCall => ResolutionMatched

\* the same for the objects with J >= 1
ResolutionMatchedFromJ1 == (InCall /\ self.J >= 1) => ResolutionMatched

\* position of filter m in the order the loops visit the filters
Pos(m) == CHOOSE i \in DOMAIN order : order[i] = m
PosLess(p, q) ==
  \E i \in 1..Len(p) : (\A k \in 1..(i - 1) : p[k] = q[k]) /\ Pos(p[i]) < Pos(q[i])

\* admissible paths of length n, as sequences of filter indices
RECURSIVE Paths(_)
Paths(n) ==
  IF n = 0 THEN {<<>>}
  ELSE {Append(x[1], x[2]) :
          x \in {y \in Paths(n - 1) \X DOMAIN self.Psi :
                   n = 1 \/ self.Psi[y[1][n - 1]].j < self.Psi[y[2]].j}}

CanonIndex(p) ==
  BlockStart(self.L, self.J, Len(p))
    + Cardinality({q \in Paths(Len(p)) : LexLess(PairsOf(q), PairsOf(p))})

VisitIndex(p) ==
  BlockStart(self.L, self.J, Len(p))
    + Cardinality({q \in Paths(Len(p)) : PosLess(q, p)})

C10_OutputSizePositive ==
  pc = "ready" =>
    /\ self.M_padded \div Pow2(self.J) - 2 >= 1
    /\ self.N_padded \div Pow2(self.J) - 2 >= 1
====
